---- MODULE Spec2Model ----
(***************************************************************************)
(* LIN checksum library for STM8 (lin_checksum.c, driven by main.c).       *)
(*                                                                         *)
(* One call of a public function is modelled per behaviour: Init picks the *)
(* function and its arguments, the actions walk through the C wrapper and, *)
(* instruction by instruction, through the hand-written assembly of        *)
(* lin_calculate_checksum_intermediate.  The same code is also given as    *)
(* operators, so that relations between different calls can be stated.     *)
(***************************************************************************)
EXTENDS Integers, Sequences, FiniteSets, TLC

VARIABLES fn, cksum, pid, fid, data, data_len,
          pc, a, cf, x, len, reads, ret, fid_out

vars == <<fn, cksum, pid, fid, data, data_len, pc, a, cf, x, len, reads, ret,
          fid_out>>

args == <<fn, cksum, pid, fid, data, data_len>>

(***************************************************************************)
(* Bounds of the checked inputs.                                           *)
(***************************************************************************)
\* longest sampled data buffer (the buffers of main.c's tables hold 8 bytes)
MaxLen == 3

\* byte values the sampled buffers and candidate checksums are built from:
\* 0x00, 0x01, 0x80, 0xFF (no carry, carry into bit 8, 0x00/0xFF pairs)
ByteSample == {0, 1, 128, 255}

\* protected IDs the enhanced functions are called with: 0x00, 0xBF, 0xFF
PidSample == {0, 191, 255}

Byte == 0..255

(***************************************************************************)
(* 8-bit arithmetic.                                                       *)
(***************************************************************************)
Bit(v, i) == (v \div (2 ^ i)) % 2

\* C's  v & m  on uint8_t operands
And8(v, m) ==
    Bit(v, 0) * Bit(m, 0)       + Bit(v, 1) * Bit(m, 1) * 2
  + Bit(v, 2) * Bit(m, 2) * 4   + Bit(v, 3) * Bit(m, 3) * 8
  + Bit(v, 4) * Bit(m, 4) * 16  + Bit(v, 5) * Bit(m, 5) * 32
  + Bit(v, 6) * Bit(m, 6) * 64  + Bit(v, 7) * Bit(m, 7) * 128

\* C's  ~v  on a promoted uint8_t, converted back to the uint8_t return type
Not8_neg(v) == (0 - v) % 256
Not8(v) == ((0 - v) - 1) % 256

\* STM8  adc a, m : A <- A + m + C, C <- carry out of bit 7
Adc_nocarry(acc, m, c) == [a |-> (acc + m) % 256, c |-> (acc + m) \div 256]
Adc(acc, m, c) == [a |-> (acc + m + c) % 256, c |-> (acc + m + c) \div 256]

\* the bytes a read of data[off] can yield; a read past the buffer the
\* caller handed over may yield anything
MemRead(d, off) == IF off < Len(d) THEN {d[off + 1]} ELSE Byte

(***************************************************************************)
(* lin_checksum.c as operators.                                            *)
(***************************************************************************)
\* the loop at 0001$ up to (not including) 0002$, entered with n # 0
RECURSIVE AsmLoop(_, _, _, _, _)
AsmLoop(acc, c, ptr, n, d) ==
    LET r  == Adc(acc, d[ptr + 1], c)
        n1 == (n - 1) % 256
    IN  IF n1 # 0 THEN AsmLoop(r.a, r.c, ptr + 1, n1, d)
                  ELSE Adc(r.a, 0, r.c).a

lin_calculate_checksum_intermediate(cksum_init, d, n) ==
    IF n = 0 THEN cksum_init ELSE AsmLoop(cksum_init, 0, 0, n, d)

lin_calculate_checksum_classic(d, n) ==
    Not8(lin_calculate_checksum_intermediate(0, d, n))

lin_calculate_checksum_enhanced(p, d, n) ==
    Not8(lin_calculate_checksum_intermediate(p, d, n))

\* cksum + intermediate == 0xFF, evaluated in int; a C bool is 1 or 0
VerifyTest_wrap(c, s) == IF (c + s) % 256 = 0 THEN 1 ELSE 0
VerifyTest_nonzero(c, s) == IF (c + s) % 256 # 0 THEN 1 ELSE 0
VerifyTest(c, s) == IF c + s = 255 THEN 1 ELSE 0

lin_verify_checksum_classic(c, d, n) ==
    VerifyTest(c, lin_calculate_checksum_intermediate(0, d, n))

lin_verify_checksum_enhanced(c, p, d, n) ==
    VerifyTest(c, lin_calculate_checksum_intermediate(p, d, n))

lut_typo == <<
    128, 193,  66,   3, 196, 133,   6,  71,
      8,  73, 202, 139,  76,  13, 142, 207,
     80,  17, 146, 211,  20,  85, 214, 151,
    216, 153,  26,  91, 156, 221,  94,  31,
     32,  97, 226, 163, 100,  37, 166, 231,
    168, 233, 106,  43, 236, 173,  46, 111,
    240, 177,  50, 115, 180, 245, 118,  55,
    120,  57, 186, 251,  60, 125, 126, 191 >>
lut == <<
    128, 193,  66,   3, 196, 133,   6,  71,
      8,  73, 202, 139,  76,  13, 142, 207,
     80,  17, 146, 211,  20,  85, 214, 151,
    216, 153,  26,  91, 156, 221,  94,  31,
     32,  97, 226, 163, 100,  37, 166, 231,
    168, 233, 106,  43, 236, 173,  46, 111,
    240, 177,  50, 115, 180, 245, 118,  55,
    120,  57, 186, 251,  60, 125, 254, 191 >>

LutIndex_clamp(f) == IF f > 63 THEN 63 ELSE f
LutIndex(f) == And8(f, 63)

lin_get_protected_id(f) == lut[LutIndex(f) + 1]

\* bool lin_verify_protected_id(pid, fid_out), as the README documents it:
\* the frame ID is the low 6 bits and is always output, the result tells
\* whether the two parity bits are those of the protected ID of that frame ID
lin_verify_protected_id(p) ==
    LET f == And8(p, 63)
    IN  [fid_out |-> f,
         result  |-> IF And8(lin_get_protected_id(f), 192) = And8(p, 192)
                     THEN 1 ELSE 0]

(***************************************************************************)
(* The tables of main.c.                                                   *)
(***************************************************************************)
\* uint8_t data[8] initialised from a shorter list is zero-filled
Pad8(s) == s \o [i \in 1..(8 - Len(s)) |-> 0]

D_zero1 == Pad8(<<0>>)
D_zero8 == Pad8(<<0, 0, 0, 0, 0, 0, 0, 0>>)
D_ff8   == <<255, 255, 255, 255, 255, 255, 255, 255>>
D_91fa  == Pad8(<<145, 250>>)
D_spec  == Pad8(<<74, 85, 147, 229>>)
D_rand8 == <<169, 211, 118, 61, 79, 217, 211, 91>>

tests_calculate_classic == {
    [data |-> D_zero1, data_len |-> 0, expected_cksum |-> 255],
    [data |-> D_zero8, data_len |-> 8, expected_cksum |-> 255],
    [data |-> D_ff8,   data_len |-> 8, expected_cksum |-> 0],
    [data |-> D_91fa,  data_len |-> 2, expected_cksum |-> 115],
    [data |-> D_spec,  data_len |-> 4, expected_cksum |-> 230],
    [data |-> D_rand8, data_len |-> 8, expected_cksum |-> 118] }

tests_calculate_enhanced == {
    [pid |-> 191, data |-> D_zero1, data_len |-> 0, expected_cksum |-> 64],
    [pid |-> 191, data |-> D_zero8, data_len |-> 8, expected_cksum |-> 64],
    [pid |-> 191, data |-> D_ff8,   data_len |-> 8, expected_cksum |-> 64],
    [pid |-> 191, data |-> D_91fa,  data_len |-> 2, expected_cksum |-> 179],
    [pid |-> 191, data |-> D_spec,  data_len |-> 4, expected_cksum |-> 39],
    [pid |-> 191, data |-> D_rand8, data_len |-> 8, expected_cksum |-> 182] }

tests_verify_classic == {
    [data |-> D_zero1, data_len |-> 0, cksum |-> 255, expected_result |-> 1],
    [data |-> D_zero8, data_len |-> 8, cksum |-> 255, expected_result |-> 1],
    [data |-> D_ff8,   data_len |-> 8, cksum |-> 0,   expected_result |-> 1],
    [data |-> D_91fa,  data_len |-> 2, cksum |-> 115, expected_result |-> 1],
    [data |-> D_spec,  data_len |-> 4, cksum |-> 230, expected_result |-> 1],
    [data |-> D_rand8, data_len |-> 8, cksum |-> 118, expected_result |-> 1],
    [data |-> D_zero1, data_len |-> 0, cksum |-> 240, expected_result |-> 0],
    [data |-> D_zero8, data_len |-> 8, cksum |-> 18,  expected_result |-> 0],
    [data |-> D_ff8,   data_len |-> 8, cksum |-> 52,  expected_result |-> 0],
    [data |-> D_91fa,  data_len |-> 2, cksum |-> 66,  expected_result |-> 0],
    [data |-> D_spec,  data_len |-> 4, cksum |-> 85,  expected_result |-> 0],
    [data |-> D_rand8, data_len |-> 8, cksum |-> 170, expected_result |-> 0] }

tests_verify_enhanced == {
    [pid |-> 191, data |-> D_zero1, data_len |-> 0, cksum |-> 64,  expected_result |-> 1],
    [pid |-> 191, data |-> D_zero8, data_len |-> 8, cksum |-> 64,  expected_result |-> 1],
    [pid |-> 191, data |-> D_ff8,   data_len |-> 8, cksum |-> 64,  expected_result |-> 1],
    [pid |-> 191, data |-> D_91fa,  data_len |-> 2, cksum |-> 179, expected_result |-> 1],
    [pid |-> 191, data |-> D_spec,  data_len |-> 4, cksum |-> 39,  expected_result |-> 1],
    [pid |-> 191, data |-> D_rand8, data_len |-> 8, cksum |-> 182, expected_result |-> 1],
    [pid |-> 191, data |-> D_zero1, data_len |-> 0, cksum |-> 240, expected_result |-> 0],
    [pid |-> 191, data |-> D_zero8, data_len |-> 8, cksum |-> 18,  expected_result |-> 0],
    [pid |-> 191, data |-> D_ff8,   data_len |-> 8, cksum |-> 52,  expected_result |-> 0],
    [pid |-> 191, data |-> D_91fa,  data_len |-> 2, cksum |-> 66,  expected_result |-> 0],
    [pid |-> 191, data |-> D_spec,  data_len |-> 4, cksum |-> 85,  expected_result |-> 0],
    [pid |-> 191, data |-> D_rand8, data_len |-> 8, cksum |-> 170, expected_result |-> 0] }

tests_protected_id == {
    [fid |-> 0,   expected_pid |-> 128],
    [fid |-> 63,  expected_pid |-> 191],
    [fid |-> 1,   expected_pid |-> 193],
    [fid |-> 16,  expected_pid |-> 80],
    [fid |-> 40,  expected_pid |-> 168],
    [fid |-> 31,  expected_pid |-> 31],
    [fid |-> 8,   expected_pid |-> 8],
    [fid |-> 64,  expected_pid |-> 128],
    [fid |-> 255, expected_pid |-> 191] }

(***************************************************************************)
(* Inputs.                                                                 *)
(***************************************************************************)
SampleBuffers == UNION {[1..k -> ByteSample] : k \in 0..MaxLen}

\* (buffer, length) pairs within the caller's contract: data_len bytes are
\* readable at data, the buffer may be longer
DataArgs ==
    {da \in [data : SampleBuffers, data_len : 0..MaxLen] : da.data_len <= Len(da.data)}

\* a received checksum: the sender's, or some other byte
CksumArgs(genuine) == ByteSample \cup {genuine}

Functions == {"lin_calculate_checksum_classic", "lin_calculate_checksum_enhanced",
              "lin_verify_checksum_classic", "lin_verify_checksum_enhanced",
              "lin_get_protected_id", "lin_verify_protected_id"}

UsesIntermediate == Functions \ {"lin_get_protected_id", "lin_verify_protected_id"}

IsEnhanced == fn \in {"lin_calculate_checksum_enhanced", "lin_verify_checksum_enhanced"}

IsCalculate == fn \in {"lin_calculate_checksum_classic", "lin_calculate_checksum_enhanced"}

IsVerify == fn \in {"lin_verify_checksum_classic", "lin_verify_checksum_enhanced"}

\* the cksum_init argument the wrapper passes
Seed == IF IsEnhanced THEN pid ELSE 0

(***************************************************************************)
(* State after the caller has set up a call.                               *)
(***************************************************************************)
InitRegs ==
    /\ pc = "call"
    /\ a = 0 /\ cf = 0 /\ x = 0 /\ len = 0
    /\ reads = << >>
    /\ ret = 0

\* what the byte at fid_out holds before a call that does not set it up
FidOutBefore == {0, 255}

Init ==
    /\ InitRegs
    /\ \/ /\ fn = "lin_calculate_checksum_classic"
          /\ \E da \in DataArgs \cup {[data |-> t.data, data_len |-> t.data_len] :
                                        t \in tests_calculate_classic} :
                /\ data = da.data
                /\ data_len = da.data_len
          /\ cksum = 0 /\ pid = 0 /\ fid = 0 /\ fid_out = 0
       \/ /\ fn = "lin_calculate_checksum_enhanced"
          /\ \E da \in DataArgs, p \in PidSample :
                /\ data = da.data
                /\ data_len = da.data_len
                /\ pid = p
          /\ cksum = 0 /\ fid = 0 /\ fid_out = 0
       \/ /\ fn = "lin_calculate_checksum_enhanced"
          /\ \E t \in tests_calculate_enhanced :
                /\ data = t.data
                /\ data_len = t.data_len
                /\ pid = t.pid
          /\ cksum = 0 /\ fid = 0 /\ fid_out = 0
       \/ /\ fn = "lin_verify_checksum_classic"
          /\ \E da \in DataArgs :
                /\ data = da.data
                /\ data_len = da.data_len
                /\ cksum \in CksumArgs(lin_calculate_checksum_classic(da.data, da.data_len))
          /\ pid = 0 /\ fid = 0 /\ fid_out = 0
       \/ /\ fn = "lin_verify_checksum_classic"
          /\ \E t \in tests_verify_classic :
                /\ data = t.data
                /\ data_len = t.data_len
                /\ cksum = t.cksum
          /\ pid = 0 /\ fid = 0 /\ fid_out = 0
       \/ /\ fn = "lin_verify_checksum_enhanced"
          /\ \E da \in DataArgs, p \in PidSample :
                /\ data = da.data
                /\ data_len = da.data_len
                /\ pid = p
                /\ cksum \in CksumArgs(lin_calculate_checksum_enhanced(p, da.data, da.data_len))
          /\ fid = 0 /\ fid_out = 0
       \/ /\ fn = "lin_verify_checksum_enhanced"
          /\ \E t \in tests_verify_enhanced :
                /\ data = t.data
                /\ data_len = t.data_len
                /\ pid = t.pid
                /\ cksum = t.cksum
          /\ fid = 0 /\ fid_out = 0
       \/ /\ fn = "lin_get_protected_id"
          /\ fid \in Byte
          /\ data = << >> /\ data_len = 0 /\ cksum = 0 /\ pid = 0 /\ fid_out = 0
       \/ /\ fn = "lin_verify_protected_id"
          /\ pid \in Byte
          /\ fid_out \in FidOutBefore
          /\ data = << >> /\ data_len = 0 /\ cksum = 0 /\ fid = 0

(***************************************************************************)
(* The C wrappers call the assembly routine: cksum_init in A, data in X,   *)
(* data_len on the stack.  The carry flag is whatever the caller left.     *)
(***************************************************************************)
CallIntermediate ==
    /\ pc = "call"
    /\ fn \in UsesIntermediate
    /\ a' = Seed
    /\ x' = 0
    /\ len' = data_len
    /\ cf' \in {0, 1}
    /\ pc' = "tnz"
    /\ UNCHANGED <<args, fid_out, reads, ret>>

\* tnz (DATA_LEN_SP_OFFSET, sp) ; jreq 0002$
Tnz_Jreq_fallthrough ==
    /\ pc = "tnz"
    /\ pc' = "rcf"
    /\ UNCHANGED <<args, fid_out, a, cf, x, len, reads, ret>>
Tnz_Jreq ==
    /\ pc = "tnz"
    /\ pc' = IF len = 0 THEN "0002" ELSE "rcf"
    /\ UNCHANGED <<args, fid_out, a, cf, x, len, reads, ret>>

\* rcf
Rcf_missing ==
    /\ pc = "rcf"
    /\ pc' = "0001"
    /\ UNCHANGED <<args, fid_out, a, cf, x, len, reads, ret>>
Rcf ==
    /\ pc = "rcf"
    /\ cf' = 0
    /\ pc' = "0001"
    /\ UNCHANGED <<args, fid_out, a, x, len, reads, ret>>

\* 0001$: adc a, (x)
Adc_Data ==
    /\ pc = "0001"
    /\ \E m \in MemRead(data, x) :
          /\ a' = Adc(a, m, cf).a
          /\ cf' = Adc(a, m, cf).c
    /\ reads' = Append(reads, x)
    /\ pc' = "incw"
    /\ UNCHANGED <<args, fid_out, x, len, ret>>

\* incw x (leaves the carry flag alone)
Incw_missing ==
    /\ pc = "incw"
    /\ pc' = "dec"
    /\ UNCHANGED <<args, fid_out, a, cf, x, len, reads, ret>>
Incw ==
    /\ pc = "incw"
    /\ x' = (x + 1) % 65536
    /\ pc' = "dec"
    /\ UNCHANGED <<args, fid_out, a, cf, len, reads, ret>>

\* dec (DATA_LEN_SP_OFFSET, sp) ; jrne 0001$ (dec leaves the carry flag alone)
Dec_Jrne ==
    /\ pc = "dec"
    /\ len' = (len - 1) % 256
    /\ pc' = IF len' # 0 THEN "0001" ELSE "adc0"
    /\ UNCHANGED <<args, fid_out, a, cf, x, reads, ret>>

\* adc a, #0
Adc_Zero_missing ==
    /\ pc = "adc0"
    /\ pc' = "0002"
    /\ UNCHANGED <<args, fid_out, a, cf, x, len, reads, ret>>
Adc_Zero ==
    /\ pc = "adc0"
    /\ a' = Adc(a, 0, cf).a
    /\ cf' = Adc(a, 0, cf).c
    /\ pc' = "0002"
    /\ UNCHANGED <<args, fid_out, x, len, reads, ret>>

\* 0002$: return to the wrapper, un-inverted checksum in A
Return ==
    /\ pc = "0002"
    /\ pc' = "wrapper"
    /\ UNCHANGED <<args, fid_out, a, cf, x, len, reads, ret>>

\* return ~lin_calculate_checksum_intermediate(...)
CalculateReturn ==
    /\ pc = "wrapper"
    /\ IsCalculate
    /\ ret' = Not8(a)
    /\ pc' = "done"
    /\ UNCHANGED <<args, fid_out, a, cf, x, len, reads>>

\* return (cksum + lin_calculate_checksum_intermediate(...) == 0xFF)
VerifyReturn ==
    /\ pc = "wrapper"
    /\ IsVerify
    /\ ret' = VerifyTest(cksum, a)
    /\ pc' = "done"
    /\ UNCHANGED <<args, fid_out, a, cf, x, len, reads>>

\* return lut[fid & 0x3F]
GetProtectedId ==
    /\ pc = "call"
    /\ fn = "lin_get_protected_id"
    /\ ret' = lin_get_protected_id(fid)
    /\ pc' = "done"
    /\ UNCHANGED <<args, fid_out, a, cf, x, len, reads>>

\* *fid_out = pid & 0x3F; return whether the parity bits are correct
VerifyProtectedId ==
    /\ pc = "call"
    /\ fn = "lin_verify_protected_id"
    /\ fid_out' = lin_verify_protected_id(pid).fid_out
    /\ ret' = lin_verify_protected_id(pid).result
    /\ pc' = "done"
    /\ UNCHANGED <<args, a, cf, x, len, reads>>

Next ==
    \/ CallIntermediate
    \/ Tnz_Jreq
    \/ Rcf
    \/ Adc_Data
    \/ Incw
    \/ Dec_Jrne
    \/ Adc_Zero
    \/ Return
    \/ CalculateReturn
    \/ VerifyReturn
    \/ GetProtectedId
    \/ VerifyProtectedId

Spec == Init /\ [][Next]_vars

\* the processor keeps executing instructions until the call has returned
FairSpec == Spec /\ WF_vars(Next)

(***************************************************************************)
(* Sanity of the model.                                                    *)
(***************************************************************************)
TypeOK ==
    /\ fn \in Functions
    /\ cksum \in Byte /\ pid \in Byte /\ fid \in Byte
    /\ data \in Seq(Byte)
    /\ data_len \in Byte /\ data_len <= Len(data)
    /\ pc \in {"call", "tnz", "rcf", "0001", "incw", "dec", "adc0", "0002",
               "wrapper", "done"}
    /\ a \in Byte /\ cf \in {0, 1} /\ x \in 0..65535 /\ len \in Byte
    /\ ret \in Byte
    /\ fid_out \in Byte

\* the operators and the instruction-level walk compute the same results
OperatorsAgree ==
    /\ pc \in {"0002", "wrapper"}
         => a = lin_calculate_checksum_intermediate(Seed, data, data_len)
    /\ pc = "done" =>
         ret = CASE fn = "lin_calculate_checksum_classic" ->
                        lin_calculate_checksum_classic(data, data_len)
                 [] fn = "lin_calculate_checksum_enhanced" ->
                        lin_calculate_checksum_enhanced(pid, data, data_len)
                 [] fn = "lin_verify_checksum_classic" ->
                        lin_verify_checksum_classic(cksum, data, data_len)
                 [] fn = "lin_verify_checksum_enhanced" ->
                        lin_verify_checksum_enhanced(cksum, pid, data, data_len)
                 [] fn = "lin_get_protected_id" ->
                        lin_get_protected_id(fid)
                 [] fn = "lin_verify_protected_id" ->
                        lin_verify_protected_id(pid).result

(***************************************************************************)
(* Notions the properties are stated with.                                 *)
(***************************************************************************)
\* the data_len bytes a call is about
Payload == SubSeq(data, 1, data_len)

\* the reference sum: add each byte and, when the addition overflows 8 bits,
\* add 1 back, once per byte
RECURSIVE EndAroundCarrySum(_, _)
EndAroundCarrySum(seed, s) ==
    IF s = << >> THEN seed
    ELSE LET t == seed + Head(s)
         IN  EndAroundCarrySum(IF t > 255 THEN (t % 256) + 1 ELSE t, Tail(s))

RECURSIVE PlainSum(_)
PlainSum(s) == IF s = << >> THEN 0 ELSE Head(s) + PlainSum(Tail(s))

\* data with the byte at offset i - 1 replaced by b
WithByte(d, i, b) == [d EXCEPT ![i] = b]

\* verify as called in the current state, on another checksum and buffer
VerifyOf(c, d) ==
    IF fn = "lin_verify_checksum_classic"
    THEN lin_verify_checksum_classic(c, d, data_len)
    ELSE lin_verify_checksum_enhanced(c, pid, d, data_len)

\* calculate for the frame of the current state
CalculateOf ==
    IF fn \in {"lin_calculate_checksum_classic", "lin_verify_checksum_classic"}
    THEN lin_calculate_checksum_classic(data, data_len)
    ELSE lin_calculate_checksum_enhanced(pid, data, data_len)

\* the LIN parity bits of a frame ID
ParityP0(f) == (Bit(f, 0) + Bit(f, 1) + Bit(f, 2) + Bit(f, 4)) % 2

ParityP1(f) == 1 - ((Bit(f, 1) + Bit(f, 3) + Bit(f, 4) + Bit(f, 5)) % 2)

(***************************************************************************)
(* C1: round trip.  The checksum a calculate call returns is accepted by   *)
(* the matching verify function for the same data, length and (enhanced)   *)
(* protected ID.                                                           *)
(***************************************************************************)
C1_RoundTrip ==
    /\ (pc = "done" /\ IsCalculate) =>
          IF fn = "lin_calculate_checksum_classic"
          THEN lin_verify_checksum_classic(ret, data, data_len) = 1
          ELSE lin_verify_checksum_enhanced(ret, pid, data, data_len) = 1
    \* the same for every protected ID, on the buffers of the classic calls
    /\ (pc = "done" /\ fn = "lin_calculate_checksum_classic") =>
          \A p \in Byte :
             lin_verify_checksum_enhanced(
                lin_calculate_checksum_enhanced(p, data, data_len),
                p, data, data_len) = 1

C1_Witness ==
    /\ pc = "done"
    /\ fn = "lin_calculate_checksum_enhanced"
    /\ data_len >= 2 /\ pid # 0
    /\ PlainSum(Payload) + pid > 255
    /\ lin_verify_checksum_enhanced(ret, pid, data, data_len) = 1

(***************************************************************************)
(* C2: when the assembly routine returns, A holds the end-around-carry sum *)
(* of the seed and the data_len bytes (and so does the operator form of    *)
(* the routine).                                                           *)
(***************************************************************************)
C2_AccumulateIsEndAroundCarry ==
    pc \in {"0002", "wrapper"} =>
        /\ a = EndAroundCarrySum(Seed, Payload)
        /\ lin_calculate_checksum_intermediate(Seed, data, data_len)
             = EndAroundCarrySum(Seed, Payload)
        \* every seed, on the buffers of the classic calls
        /\ (pc = "0002" /\ fn = "lin_calculate_checksum_classic") =>
              \A s \in Byte :
                 lin_calculate_checksum_intermediate(s, data, data_len)
                   = EndAroundCarrySum(s, Payload)

\* a run in which folding the carries made a difference
C2_Witness ==
    /\ pc = "0002"
    /\ data_len >= 2
    /\ a = EndAroundCarrySum(Seed, Payload)
    /\ a # (Seed + PlainSum(Payload)) % 256

(***************************************************************************)
(* C3: verify returns true exactly for the checksum calculate returns: a   *)
(* verify call accepts the checksum passed in exactly when it is the       *)
(* calculated one, and of all candidate bytes only the one a calculate     *)
(* call returned is accepted.                                              *)
(***************************************************************************)
C3_VerifyIffCalculated ==
    /\ (pc = "done" /\ IsVerify) =>
          /\ ret \in {0, 1}
          /\ (ret = 1) <=> (cksum = CalculateOf)
    /\ (pc = "done" /\ IsCalculate) =>
          \A c \in Byte :
             (IF fn = "lin_calculate_checksum_classic"
              THEN lin_verify_checksum_classic(c, data, data_len)
              ELSE lin_verify_checksum_enhanced(c, pid, data, data_len)) = 1
             <=> (c = ret)

C3_Witness ==
    /\ pc = "done" /\ IsVerify
    /\ data_len >= 2
    /\ ret = 1
    /\ cksum = CalculateOf

(***************************************************************************)
(* C4 as stated: after a successful verify, changing any one of the        *)
(* data_len data bytes, or the checksum, to a different value makes verify *)
(* return false.                                                           *)
(***************************************************************************)
C4_AnySingleChangeDetected ==
    (pc = "done" /\ IsVerify /\ ret = 1) =>
        /\ \A c \in Byte \ {cksum} : VerifyOf(c, data) = 0
        /\ \A i \in 1..data_len : \A b \in Byte \ {data[i]} :
              VerifyOf(cksum, WithByte(data, i, b)) = 0

(***************************************************************************)
(* C4 amended: after a successful verify, changing the checksum to a       *)
(* different value, or changing any one of the data_len data bytes to a    *)
(* different value other than 0x00 to 0xFF or 0xFF to 0x00, makes verify   *)
(* return false.                                                           *)
(***************************************************************************)
C4_SingleChangeDetected ==
    (pc = "done" /\ IsVerify /\ ret = 1) =>
        /\ \A c \in Byte \ {cksum} : VerifyOf(c, data) = 0
        /\ \A i \in 1..data_len : \A b \in Byte \ {data[i]} :
              {data[i], b} # {0, 255} => VerifyOf(cksum, WithByte(data, i, b)) = 0

C4_Witness ==
    /\ pc = "done" /\ IsVerify /\ ret = 1
    /\ data_len >= 2
    /\ \E i \in 1..data_len : data[i] \notin {0, 255}
    /\ VerifyOf(cksum, WithByte(data, 1, (data[1] + 1) % 256)) = 0

(***************************************************************************)
(* C5: for a frame ID in 0..63 the returned protected ID carries the frame *)
(* ID in bits 0..5, P0 = ID0^ID1^ID2^ID4 in bit 6 and                      *)
(* P1 = ~(ID1^ID3^ID4^ID5) in bit 7.                                       *)
(***************************************************************************)
C5_TableMatchesParity ==
    (pc = "done" /\ fn = "lin_get_protected_id" /\ fid <= 63) =>
        /\ ret % 64 = fid
        /\ Bit(ret, 6) = ParityP0(fid)
        /\ Bit(ret, 7) = ParityP1(fid)
        /\ ret = fid + 64 * ParityP0(fid) + 128 * ParityP1(fid)

C5_Witness ==
    /\ pc = "done" /\ fn = "lin_get_protected_id"
    /\ fid = 62
    /\ ret = 254

(***************************************************************************)
(* C6: a frame ID above 63 yields the protected ID of its low 6 bits, and  *)
(* the table is never indexed outside its 64 entries.                      *)
(***************************************************************************)
C6_FrameIdReducedMod64 ==
    (pc = "done" /\ fn = "lin_get_protected_id") =>
        /\ LutIndex(fid) \in 0..(Len(lut) - 1)
        /\ ret = lin_get_protected_id(And8(fid, 63))
        /\ ret = lin_get_protected_id(fid % 64)
        /\ fid \in {0, 64} => ret = 128
        /\ fid \in {63, 255} => ret = 191

C6_Witness ==
    /\ pc = "done" /\ fn = "lin_get_protected_id"
    /\ fid = 255
    /\ ret = 191

(***************************************************************************)
(* C7: the enhanced checksum is the classic checksum of the protected ID   *)
(* followed by the data bytes; with protected ID 0 it is the classic       *)
(* checksum of the data.                                                   *)
(***************************************************************************)
C7_EnhancedIsClassicOverPidAndData ==
    /\ (pc = "done" /\ fn = "lin_calculate_checksum_enhanced" /\ data_len <= 254) =>
          ret = lin_calculate_checksum_classic(<<pid>> \o Payload, data_len + 1)
    /\ (pc = "done" /\ fn = "lin_calculate_checksum_classic") =>
          /\ ret = lin_calculate_checksum_enhanced(0, data, data_len)
          \* every protected ID, on the buffers of the classic calls
          /\ \A p \in Byte :
                lin_calculate_checksum_enhanced(p, data, data_len)
                  = lin_calculate_checksum_classic(<<p>> \o Payload, data_len + 1)

C7_Witness ==
    /\ pc = "done" /\ fn = "lin_calculate_checksum_enhanced"
    /\ pid = 191 /\ data_len >= 2
    /\ ret = lin_calculate_checksum_classic(<<pid>> \o Payload, data_len + 1)
    /\ ret # lin_calculate_checksum_classic(data, data_len)

(***************************************************************************)
(* C8: with data_len = 0 the routine goes from the length test straight to *)
(* its return: no buffer read, no add or carry instruction, A still the    *)
(* seed; classic then returns 0xFF and enhanced returns ~pid.              *)
(***************************************************************************)
C8_ZeroLengthReturnsSeed ==
    (data_len = 0 /\ fn \in UsesIntermediate) =>
        /\ reads = << >>
        /\ pc \notin {"rcf", "0001", "incw", "dec", "adc0"}
        /\ pc \in {"tnz", "0002", "wrapper", "done"} => a = Seed /\ x = 0
        /\ (pc = "done" /\ fn = "lin_calculate_checksum_classic") => ret = 255
        /\ (pc = "done" /\ fn = "lin_calculate_checksum_enhanced") =>
              ret = 255 - pid /\ (pid = 191 => ret = 64)

C8_Witness ==
    /\ pc = "done" /\ fn = "lin_calculate_checksum_enhanced"
    /\ data_len = 0 /\ Len(data) > 0
    /\ pid = 191 /\ ret = 64
    /\ reads = << >>

(***************************************************************************)
(* C9 as stated: for any length, the classic checksum of data_len bytes    *)
(* 0x00 is 0xFF and of data_len bytes 0xFF is 0x00.                        *)
(***************************************************************************)
C9_AllZeroAllFF ==
    (pc = "done" /\ fn = "lin_calculate_checksum_classic") =>
        /\ (\A i \in 1..data_len : data[i] = 0) => ret = 255
        /\ (\A i \in 1..data_len : data[i] = 255) => ret = 0

(***************************************************************************)
(* C9 amended: for any length, the classic checksum of data_len bytes 0x00 *)
(* is 0xFF; for any length of at least 1, the classic checksum of data_len *)
(* bytes 0xFF is 0x00.                                                     *)
(***************************************************************************)
C9_AllZeroAllFFNonEmpty ==
    (pc = "done" /\ fn = "lin_calculate_checksum_classic") =>
        /\ (\A i \in 1..data_len : data[i] = 0) => ret = 255
        /\ (data_len >= 1 /\ \A i \in 1..data_len : data[i] = 255) => ret = 0

C9_Witness ==
    /\ pc = "done" /\ fn = "lin_calculate_checksum_classic"
    /\ data_len >= 2
    /\ \A i \in 1..data_len : data[i] = 255
    /\ ret = 0

(***************************************************************************)
(* C10: every row of the calculate tables of the test program yields its   *)
(* expected checksum; {0x4A,0x55,0x93,0xE5} gives 0xE6 classic and 0x27    *)
(* enhanced with PID 0xBF, {0x91,0xFA} gives 0x73 and 0xB3.                *)
(***************************************************************************)
C10_GoldenVectors ==
    /\ \A t \in tests_calculate_classic :
          (pc = "done" /\ fn = "lin_calculate_checksum_classic"
             /\ data = t.data /\ data_len = t.data_len) => ret = t.expected_cksum
    /\ \A t \in tests_calculate_enhanced :
          (pc = "done" /\ fn = "lin_calculate_checksum_enhanced"
             /\ pid = t.pid /\ data = t.data /\ data_len = t.data_len)
                => ret = t.expected_cksum
    /\ (pc = "done" /\ IsCalculate /\ Payload = <<74, 85, 147, 229>>) =>
          /\ fn = "lin_calculate_checksum_classic" => ret = 230
          /\ (fn = "lin_calculate_checksum_enhanced" /\ pid = 191) => ret = 39
    /\ (pc = "done" /\ IsCalculate /\ Payload = <<145, 250>>) =>
          /\ fn = "lin_calculate_checksum_classic" => ret = 115
          /\ (fn = "lin_calculate_checksum_enhanced" /\ pid = 191) => ret = 179

C10_Witness ==
    /\ pc = "done" /\ fn = "lin_calculate_checksum_enhanced"
    /\ pid = 191 /\ data = D_spec /\ data_len = 4
    /\ ret = 39

C12_LoopState ==
    fn \in UsesIntermediate =>
        /\ \A i \in 1..Len(reads) : reads[i] = i - 1
        /\ Len(reads) <= data_len
        /\ Len(reads) <= 255
        /\ pc \in {"call", "tnz"} => reads = << >>
        /\ pc \in {"rcf", "0001"} =>
              /\ len >= 1
              /\ len = data_len - Len(reads)
              /\ x = Len(reads)
        /\ pc = "incw" => len = data_len - Len(reads) + 1 /\ x = Len(reads) - 1
        /\ pc = "dec" => len = data_len - Len(reads) + 1 /\ x = Len(reads)
        /\ pc \in {"adc0", "0002", "wrapper", "done"} =>
              /\ Len(reads) = data_len
              /\ len = 0

C12_ExactlyDataLenIterations ==
    /\ []C12_LoopState
    /\ [][data' = data /\ data_len' = data_len]_vars
    /\ <>(pc = "done")

\* the LIN example frame: 4 of the 8 bytes of the buffer are read
C12_Witness ==
    /\ pc = "done" /\ fn = "lin_calculate_checksum_classic"
    /\ data = D_spec /\ data_len = 4 /\ Len(data) = 8
    /\ reads = <<0, 1, 2, 3>>
    /\ len = 0

(***************************************************************************)
(* C13: once the loop has executed an add-with-carry, A = 0xFF never       *)
(* coincides with a set carry flag; so the final adc a, #0 produces no     *)
(* carry, and the value returned is the whole sum with every carry folded  *)
(* in.                                                                     *)
(***************************************************************************)
C13_NoFFWithCarry ==
    fn \in UsesIntermediate =>
        /\ (pc \in {"incw", "dec", "adc0"} \/ (pc = "0001" /\ reads # << >>))
              => ~(a = 255 /\ cf = 1)
        /\ pc = "adc0" => Adc(a, 0, cf).c = 0 /\ Adc(a, 0, cf).a = a + cf
        /\ (data_len > 0 /\ pc \in {"0002", "wrapper", "done"}) => cf = 0
        \* whatever byte the next adc of a classic calculation would add
        /\ (pc = "0001" /\ fn = "lin_calculate_checksum_classic") =>
              \A m \in Byte : ~(Adc(a, m, cf).a = 255 /\ Adc(a, m, cf).c = 1)

\* a carry is pending when the loop ends, with A = 0xFE
C13_Witness ==
    /\ pc = "adc0"
    /\ cf = 1
    /\ a = 254
    /\ data_len >= 2

====
